---- MODULE Spec2Model ----
(***************************************************************************)
(* Model of second_level_stable_set.py: the two SDP relaxation builders    *)
(* (second_level_stable_set_problem_sdp and its projected, slack-corrected *)
(* variant) and the dimension bound calculator projected_dimension.        *)
(*                                                                         *)
(* A builder call is a run through the solver session: open the model and  *)
(* set the objective, add one constraint per non-constant monomial, add    *)
(* the constant-monomial constraint, solve, return.  The instance handed   *)
(* to the solver is recorded as data (PSD size, objective coefficients,    *)
(* list of equality constraints).                                          *)
(***************************************************************************)
EXTENDS Integers, Sequences, FiniteSets, TLC

VARIABLES
    distinct_monomials, \* graph.distinct_monomials_L2
    A_L2,               \* graph.A_L2 : monomial -> matrix
    fn,                 \* which builder is called: "plain" or "projected"
    projector,          \* the RandomProjector argument (projected builder)
    slack,              \* the slack argument (projected builder)
    pc,                 \* position of the call
    session,            \* the mf.Model session: "none", "live", "released"
    A,                  \* the local A (projected matrices in the projected builder)
    size_psd_variable,  \* local size_psd_variable
    objective,          \* the objective handed to the model
    constraints,        \* the list constraints: the monomial constraints, in order
    c0,                 \* the constraint of the constant monomial
    i,                  \* loop index of the constraint loop
    linear_variables,   \* local linear_variables (projected builder)
    solveCalls,         \* number of M.solve() calls made
    error,              \* the exception that left the call, or "none"
    result,             \* the returned solution record
    epsilon, probability, ranks_Ai, rank_solution, \* arguments of projected_dimension
    dpc,                \* position of the projected_dimension call
    d,                  \* local d
    printed,            \* what projected_dimension wrote to standard output
    ret,                \* what projected_dimension returned to its caller
    derror              \* the exception that left projected_dimension, or "none"

bvars == <<distinct_monomials, A_L2, fn, projector, slack, pc, session, A,
           size_psd_variable, objective, constraints, c0, i, linear_variables,
           solveCalls, error, result>>
dvars == <<epsilon, probability, ranks_Ai, rank_solution, dpc, d, printed, ret, derror>>
vars == <<bvars, dvars>>

----------------------------------------------------------------------------
(* Bounds of the model *)

\* number of graph vertices (length of a monomial tuple)
NVars == 2
\* longest list of distinct monomials
MaxLen == 3

----------------------------------------------------------------------------
(* Matrices: a matrix is a sequence of rows *)

Rows(M) == Len(M)
Cols(M) == IF Len(M) = 0 THEN 0 ELSE Len(M[1])
Shape(M) == <<Rows(M), Cols(M)>>

RECURSIVE SumTo(_, _)
SumTo(f, n) == IF n = 0 THEN 0 ELSE f[n] + SumTo(f, n - 1)

Transpose(M) == [c \in 1..Cols(M) |-> [r \in 1..Rows(M) |-> M[r][c]]]

MatMul(P, Q) ==
    [r \in 1..Rows(P) |-> [c \in 1..Cols(Q) |->
        SumTo([k \in 1..Cols(P) |-> P[r][k] * Q[k][c]], Cols(P))]]

----------------------------------------------------------------------------
(* Monomials and the objective coefficients C *)

Monomials == [1..NVars -> 0..1]

Degree(m) == SumTo(m, Len(m))

\* C = {monomial: -1 if sum(monomial) == 1 else 0}
CCoefAtLeastOne(m) == IF Degree(m) >= 1 THEN -1 ELSE 0
CCoef(m) == IF Degree(m) = 1 THEN -1 ELSE 0

\* tuple_of_constant = tuple([0 for i in range(len(distinct_monomials[0]))])
tuple_of_constant(dm) == [j \in 1..Len(dm[1]) |-> 0]

\* [m for m in distinct_monomials if m != tuple_of_constant]
NonConstant(dm) == SelectSeq(dm, LAMBDA m : m # tuple_of_constant(dm))

----------------------------------------------------------------------------
(* The random projector (random_projections.RandomProjector) *)

IdentityMatrix(n) == [r \in 1..n |-> [c \in 1..n |-> IF r = c THEN 1 ELSE 0]]

Projectors ==
    { [family |-> "identity", k |-> 2, s |-> 2, R |-> IdentityMatrix(2)],
      [family |-> "dense",    k |-> 1, s |-> 2, R |-> << <<1, -1>> >>] }

\* apply(matrix s x s) is defined on matrices of the ambient shape
CanApply(proj, M) == Shape(M) = <<proj.s, proj.s>>

\* apply_rp_map: the congruence R . M . R^T
apply_rp_map(proj, M) == MatMul(MatMul(proj.R, M), Transpose(proj.R))

----------------------------------------------------------------------------
(* Values of the solution record *)

StrV(s) == [kind |-> "str", str |-> s, int |-> 0]
IntV(n) == [kind |-> "int", str |-> "", int |-> n]

NoResult == [kind |-> "none"]
NoObjective == [sense |-> "unset"]

----------------------------------------------------------------------------
(* Pieces of the SDP instance *)

\* epsilon = 0.00001 = 1 / EpsInv; objective coefficients are counted in
\* units of epsilon, so the coefficient 1 of b is EpsInv
EpsInv == 100000

dual_lower_bound == 0 - 1
dual_upper_bound == EpsInv + 1

\* ones_vector = np.ones(n); ones_vector[0] = 0  (position j is index j-1)
ones_vector(n) == [j \in 1..n |-> IF j = 1 THEN 0 ELSE 1]

\* M.objective(Maximize, b)
ObjectiveB == [sense |-> "Maximize", b |-> EpsInv, lb |-> << >>, ub |-> << >>]

\* M.objective(Maximize, b + (dual_lower_bound * lb.ones - dual_upper_bound * ub.ones))
ObjectiveSlackNegatedLower(n) ==
    [sense |-> "Maximize", b |-> EpsInv,
     lb |-> [j \in 1..n |-> 0 - dual_lower_bound * ones_vector(n)[j]],
     ub |-> [j \in 1..n |-> 0 - dual_upper_bound * ones_vector(n)[j]]]
ObjectiveSlack(n) ==
    [sense |-> "Maximize", b |-> EpsInv,
     lb |-> [j \in 1..n |-> dual_lower_bound * ones_vector(n)[j]],
     ub |-> [j \in 1..n |-> 0 - dual_upper_bound * ones_vector(n)[j]]]

ProjectedObjectiveAlwaysSlack(sl, n) == ObjectiveSlack(n)
ProjectedObjective(sl, n) == IF sl THEN ObjectiveSlack(n) ELSE ObjectiveB

\* mf.Expr.dot(matrix, X) needs the operands to have the same shape
ExprDotOk(M, size) == Shape(M) = <<size, size>>

\* difference_slacks: lb_variables.index(i + 1) - ub_variables.index(i + 1), or 0
\* (idx is the 0-based loop index i)
DifferenceSlacksShared(sl, idx) ==
    IF sl THEN [lb |-> {1}, ub |-> {1}] ELSE [lb |-> {}, ub |-> {}]
DifferenceSlacks(sl, idx) ==
    IF sl THEN [lb |-> {idx + 1}, ub |-> {idx + 1}] ELSE [lb |-> {}, ub |-> {}]

\* M.constraint(Expr.dot(A[monomial], X), equalsTo(C[monomial]))
MonomialConstraint(mat, m) ==
    [mat |-> mat, b |-> 0, lb |-> {}, ub |-> {}, rhs |-> CCoef(m)]

\* M.constraint(Expr.add(Expr.dot(A[monomial], X), difference_slacks), equalsTo(C[monomial]))
ProjectedConstraint(mat, m, sl, idx) ==
    [mat |-> mat, b |-> 0, lb |-> DifferenceSlacks(sl, idx).lb,
     ub |-> DifferenceSlacks(sl, idx).ub, rhs |-> CCoef(m)]

\* c0 = M.constraint(Expr.add(Expr.dot(A[tuple_of_constant], X), b), equalsTo(C[tuple_of_constant]))
ConstantConstraintWithSlack(mat, zero) ==
    [mat |-> mat, b |-> 1, lb |-> {0}, ub |-> {0}, rhs |-> CCoef(zero)]
ConstantConstraint(mat, zero) ==
    [mat |-> mat, b |-> 1, lb |-> {}, ub |-> {}, rhs |-> CCoef(zero)]

\* leaving the "with mf.Model(...) as M" block disposes the model, on return
\* and on an exception alike
WithExitLeakOnError(sess, failed) == IF failed THEN sess ELSE "released"
WithExit(sess, failed) == "released"

\* the instance the solver is called on
Instance ==
    [size |-> size_psd_variable, objective |-> objective,
     constraints |-> Append(constraints, c0)]

\* the solver is a function of the instance it is given
PrimalObjValue(inst) == [primalObjValue |-> inst]

----------------------------------------------------------------------------
(* Inputs of a builder call *)

ZeroMonomial == [j \in 1..NVars |-> 0]

Range(f) == {f[j] : j \in DOMAIN f}

\* ordered lists of distinct monomials that contain the zero monomial
MonomialLists ==
    {dm \in UNION {[1..n -> Monomials] : n \in 1..MaxLen} :
        /\ \A j, k \in DOMAIN dm : j # k => dm[j] # dm[k]
        /\ ZeroMonomial \in Range(dm)}

\* a symmetric 2 x 2 coefficient matrix for each monomial
WellShaped(m) ==
    << <<IF Degree(m) = 0 THEN 1 ELSE 0, m[1]>>, <<m[1], m[NVars] + Degree(m)>> >>

\* matrices of another shape
Misshaped == { << <<1>> >>, << <<1, 0, 0>>, <<0, 1, 0>> >> }

\* the mappings monomial -> matrix: every listed monomial is a key, one more
\* monomial may be, and at most one key holds a matrix of another shape
CoefficientMaps(dm) ==
    LET listed == Range(dm)
        others == Monomials \ listed
        keysets == {listed} \cup
                   (IF others = {} THEN {}
                    ELSE {listed \cup {CHOOSE m \in others : TRUE}})
    IN  UNION {{[m \in keys |-> IF m = bad THEN mat ELSE WellShaped(m)] :
                   bad \in keys \cup {<< >>}, mat \in Misshaped} :
               keys \in keysets}

NoProjector == [family |-> "none", k |-> 0, s |-> 0, R |-> << >>]
NoConstraint == [mat |-> << >>, b |-> 0, lb |-> {}, ub |-> {}, rhs |-> 0]

BInit ==
    /\ distinct_monomials \in MonomialLists
    /\ A_L2 \in CoefficientMaps(distinct_monomials)
    /\ fn \in {"plain", "projected"}
    /\ projector \in (IF fn = "plain" THEN {NoProjector} ELSE Projectors)
    /\ slack \in (IF fn = "plain" THEN {FALSE} ELSE BOOLEAN)
    /\ pc = "start"
    /\ session = "none"
    /\ A = << >>
    /\ size_psd_variable = 0
    /\ objective = NoObjective
    /\ constraints = << >>
    /\ c0 = NoConstraint
    /\ i = 0
    /\ linear_variables = 0
    /\ solveCalls = 0
    /\ error = "none"
    /\ result = NoResult

----------------------------------------------------------------------------
(* The steps of a builder call *)

\* plain builder, lines 38-45: A = graph.A_L2
PlainPrepare ==
    /\ pc = "start" /\ fn = "plain"
    /\ A' = A_L2
    /\ pc' = "open"
    /\ UNCHANGED <<distinct_monomials, A_L2, fn, projector, slack, session,
                   size_psd_variable, objective, constraints, c0, i,
                   linear_variables, solveCalls, error, result>>

\* projected builder, lines 146-153: every A[m] is replaced by its projection
ProjectedPrepare ==
    /\ pc = "start" /\ fn = "projected"
    /\ \A m \in DOMAIN A_L2 : CanApply(projector, A_L2[m])
    /\ A' = [m \in DOMAIN A_L2 |-> apply_rp_map(projector, A_L2[m])]
    /\ pc' = "open"
    /\ UNCHANGED <<distinct_monomials, A_L2, fn, projector, slack, session,
                   size_psd_variable, objective, constraints, c0, i,
                   linear_variables, solveCalls, error, result>>

\* the projection of a matrix of another shape raises, before any session exists
ProjectedPrepareFails ==
    /\ pc = "start" /\ fn = "projected"
    /\ \E m \in DOMAIN A_L2 : ~CanApply(projector, A_L2[m])
    /\ error' = "ValueError"
    /\ pc' = "raised"
    /\ UNCHANGED <<distinct_monomials, A_L2, fn, projector, slack, session, A,
                   size_psd_variable, objective, constraints, c0, i,
                   linear_variables, solveCalls, result>>

\* lines 49-58 and 157-197: enter the model, create X, b, the slack
\* variables, and set the objective
OpenModel ==
    /\ pc = "open"
    /\ session' = "live"
    /\ size_psd_variable' = Rows(A[distinct_monomials[1]])
    /\ objective' = IF fn = "plain" THEN ObjectiveB
                    ELSE ProjectedObjective(slack, Len(distinct_monomials))
    /\ i' = 0
    /\ pc' = "loop"
    /\ UNCHANGED <<distinct_monomials, A_L2, fn, projector, slack, A,
                   constraints, c0, linear_variables, solveCalls, error, result>>

\* the monomial of loop index i
LoopMonomial == NonConstant(distinct_monomials)[i + 1]

\* lines 63-73 and 202-223: one iteration of the constraint loop
AddConstraint ==
    /\ pc = "loop" /\ i < Len(NonConstant(distinct_monomials))
    /\ ExprDotOk(A[LoopMonomial], size_psd_variable)
    /\ constraints' = Append(constraints,
          IF fn = "plain" THEN MonomialConstraint(A[LoopMonomial], LoopMonomial)
          ELSE ProjectedConstraint(A[LoopMonomial], LoopMonomial, slack, i))
    /\ i' = i + 1
    /\ UNCHANGED <<distinct_monomials, A_L2, fn, projector, slack, pc, session, A,
                   size_psd_variable, objective, c0, linear_variables,
                   solveCalls, error, result>>

\* Expr.dot on operands of different shapes raises; the with block is left
AddConstraintFails ==
    /\ pc = "loop" /\ i < Len(NonConstant(distinct_monomials))
    /\ ~ExprDotOk(A[LoopMonomial], size_psd_variable)
    /\ error' = "DimensionError"
    /\ session' = WithExit(session, TRUE)
    /\ pc' = "raised"
    /\ UNCHANGED <<distinct_monomials, A_L2, fn, projector, slack, A,
                   size_psd_variable, objective, constraints, c0, i,
                   linear_variables, solveCalls, result>>

\* lines 77-80 and 227-230: the constraint of the constant monomial
AddC0 ==
    /\ pc = "loop" /\ i = Len(NonConstant(distinct_monomials))
    /\ ExprDotOk(A[tuple_of_constant(distinct_monomials)], size_psd_variable)
    /\ c0' = ConstantConstraint(A[tuple_of_constant(distinct_monomials)],
                                tuple_of_constant(distinct_monomials))
    /\ pc' = "solve"
    /\ UNCHANGED <<distinct_monomials, A_L2, fn, projector, slack, session, A,
                   size_psd_variable, objective, constraints, i,
                   linear_variables, solveCalls, error, result>>

AddC0Fails ==
    /\ pc = "loop" /\ i = Len(NonConstant(distinct_monomials))
    /\ ~ExprDotOk(A[tuple_of_constant(distinct_monomials)], size_psd_variable)
    /\ error' = "DimensionError"
    /\ session' = WithExit(session, TRUE)
    /\ pc' = "raised"
    /\ UNCHANGED <<distinct_monomials, A_L2, fn, projector, slack, A,
                   size_psd_variable, objective, constraints, c0, i,
                   linear_variables, solveCalls, result>>

\* lines 90-95 and 240-245: M.solve() and the levels of X and b
Solve ==
    /\ pc = "solve"
    /\ solveCalls' = solveCalls + 1
    /\ pc' = "return"
    /\ UNCHANGED <<distinct_monomials, A_L2, fn, projector, slack, session, A,
                   size_psd_variable, objective, constraints, c0, i,
                   linear_variables, error, result>>

\* the solver fails (infeasible, unbounded, numerical): nothing catches it
SolveFails ==
    /\ pc = "solve"
    /\ solveCalls' = solveCalls + 1
    /\ error' = "SolverFailure"
    /\ session' = WithExit(session, TRUE)
    /\ pc' = "raised"
    /\ UNCHANGED <<distinct_monomials, A_L2, fn, projector, slack, A,
                   size_psd_variable, objective, constraints, c0, i,
                   linear_variables, result>>

\* lines 248-251: linear_variables
LinearVariables(sl, cons) == IF sl THEN 2 * Len(cons) + 1 ELSE 1

\* lines 131-138 and 253-260: the solution record
Solution(inst) ==
    [kind |-> "solution",
     objective |-> PrimalObjValue(inst),
     size_psd_variable |-> IntV(inst.size),
     no_linear_variables |-> StrV("TBC")]

\* lines 131-140 and 248-262: build the record, return, leave the with block
Return ==
    /\ pc = "return"
    /\ linear_variables' = IF fn = "projected"
                           THEN LinearVariables(slack, constraints)
                           ELSE linear_variables
    /\ result' = Solution(Instance)
    /\ session' = WithExit(session, FALSE)
    /\ pc' = "returned"
    /\ UNCHANGED <<distinct_monomials, A_L2, fn, projector, slack, A,
                   size_psd_variable, objective, constraints, c0, i,
                   solveCalls, error>>

----------------------------------------------------------------------------
(* projected_dimension                                                     *)
(*                                                                         *)
(* Reals are fixed-point integers in units of 1/Scale; epsilon and         *)
(* probability are the rationals n/Den.  A float result is a number, nan   *)
(* or -inf.                                                                *)

\* denominator of the grid epsilon and probability are drawn from
Den == 4
\* largest rank, and longest list ranks_Ai
MaxRank == 2
MaxRanks == 2

Scale == 100 * 100

Num(v) == [kind |-> "num", v |-> v]
NaN == [kind |-> "nan", v |-> 0]
NegInf == [kind |-> "-inf", v |-> 0]
NoneV == [kind |-> "None", v |-> 0]

\* atanh(z) = z + z^3/3 + z^5/5 + z^7/7 + z^9/9, 0 <= z <= 1/3
AtanhSeries(z) ==
    LET z2 == (z * z) \div Scale
        t3 == (z * z2) \div Scale
        t5 == (t3 * z2) \div Scale
        t7 == (t5 * z2) \div Scale
        t9 == (t7 * z2) \div Scale
    IN  z + (t3 \div 3) + (t5 \div 5) + (t7 \div 7) + (t9 \div 9)

\* ln(num/den) for 1 <= num/den < 2: 2 atanh((x - 1)/(x + 1))
LnMantissa(num, den) == 2 * AtanhSeries((Scale * (num - den)) \div (num + den))

RECURSIVE LnAtLeastOne(_, _)
LnAtLeastOne(num, den) ==
    IF num >= 2 * den THEN LnMantissa(2, 1) + LnAtLeastOne(num, 2 * den)
    ELSE LnMantissa(num, den)

\* ln(num/den), num > 0, den > 0
Ln(num, den) ==
    IF num >= den THEN LnAtLeastOne(num, den) ELSE 0 - LnAtLeastOne(den, num)

\* np.log of the float num/den (den > 0)
NpLog(num, den) ==
    IF num > 0 THEN Num(Ln(num, den)) ELSE IF num = 0 THEN NegInf ELSE NaN

\* np.exp(t): 1 + t + t^2/2 + t^3/6 + t^4/24 + t^5/120, |t| < 1
NpExp(t) ==
    LET t2 == (t * t) \div Scale
        t3 == (t2 * t) \div Scale
        t4 == (t3 * t) \div Scale
        t5 == (t4 * t) \div Scale
    IN  Scale + t + (t2 \div 2) + (t3 \div 6) + (t4 \div 24) + (t5 \div 120)

\* sum_ranks = 8 * rank_solution + sum(ranks_Ai)
sum_ranks(ranks, rs) == 8 * rs + SumTo(ranks, Len(ranks))

\* epsilon_part = np.exp(2 * (epsilon ** 2 / 2 - epsilon ** 3 / 3)), epsilon = en/Den
epsilon_part(en) ==
    NpExp(2 * (((Scale * en * en) \div (2 * Den * Den))
               - ((Scale * en * en * en) \div (3 * Den * Den * Den))))

\* sum_ranks / probability as a fraction with a positive denominator,
\* probability = pn/Den, pn # 0
QuotientTimes(s, pn) == [num |-> s * pn, den |-> Den]
Quotient(s, pn) ==
    IF pn > 0 THEN [num |-> s * Den, den |-> pn]
    ELSE [num |-> 0 - s * Den, den |-> 0 - pn]

\* d = np.log(sum_ranks / probability) * epsilon_part
DValue(en, pn, ranks, rs) ==
    LET q == Quotient(sum_ranks(ranks, rs), pn)
        l == NpLog(q.num, q.den)
    IN  IF l.kind = "num" THEN Num((l.v * epsilon_part(en)) \div Scale) ELSE l

DInit ==
    /\ epsilon \in (0 - 1)..Den
    /\ probability \in (0 - 1)..(Den + 1)
    /\ ranks_Ai \in UNION {[1..n -> 0..MaxRank] : n \in 0..MaxRanks}
    /\ rank_solution \in 0..MaxRank
    /\ dpc = "start"
    /\ d = NoneV
    /\ printed = << >>
    /\ ret = NoneV
    /\ derror = "none"

\* lines 361-367: compute d, print it, fall off the end of the function
ProjectedDimension ==
    /\ dpc = "start"
    /\ probability # 0
    /\ d' = DValue(epsilon, probability, ranks_Ai, rank_solution)
    /\ printed' = Append(printed, d')
    /\ ret' = NoneV
    /\ dpc' = "returned"
    /\ UNCHANGED <<epsilon, probability, ranks_Ai, rank_solution, derror>>

\* line 365: a Python int divided by the float 0.0
ProjectedDimensionDividesByZero ==
    /\ dpc = "start"
    /\ probability = 0
    /\ derror' = "ZeroDivisionError"
    /\ dpc' = "raised"
    /\ UNCHANGED <<epsilon, probability, ranks_Ai, rank_solution, d, printed, ret>>

----------------------------------------------------------------------------
(* Specifications *)

\* no projected_dimension call in a builder run, and no builder call in a
\* projected_dimension run
DIdle ==
    /\ epsilon = 1 /\ probability = 1 /\ ranks_Ai = << >> /\ rank_solution = 0
    /\ dpc = "idle" /\ d = NoneV /\ printed = << >> /\ ret = NoneV /\ derror = "none"

BIdle ==
    /\ distinct_monomials = <<ZeroMonomial>>
    /\ A_L2 = << >> /\ fn = "none" /\ projector = NoProjector /\ slack = FALSE
    /\ pc = "idle" /\ session = "none" /\ A = << >> /\ size_psd_variable = 0
    /\ objective = NoObjective /\ constraints = << >> /\ c0 = NoConstraint
    /\ i = 0 /\ linear_variables = 0 /\ solveCalls = 0 /\ error = "none"
    /\ result = NoResult

Init == BInit /\ DIdle

Next ==
    \/ PlainPrepare /\ UNCHANGED dvars
    \/ ProjectedPrepare /\ UNCHANGED dvars
    \/ ProjectedPrepareFails /\ UNCHANGED dvars
    \/ OpenModel /\ UNCHANGED dvars
    \/ AddConstraint /\ UNCHANGED dvars
    \/ AddConstraintFails /\ UNCHANGED dvars
    \/ AddC0 /\ UNCHANGED dvars
    \/ AddC0Fails /\ UNCHANGED dvars
    \/ Solve /\ UNCHANGED dvars
    \/ SolveFails /\ UNCHANGED dvars
    \/ Return /\ UNCHANGED dvars

Spec == Init /\ [][Next]_vars

InitDim == DInit /\ BIdle

NextDim ==
    \/ ProjectedDimension /\ UNCHANGED bvars
    \/ ProjectedDimensionDividesByZero /\ UNCHANGED bvars

SpecDim == InitDim /\ [][NextDim]_vars

----------------------------------------------------------------------------
(* The instance second_level_stable_set_problem_sdp builds from a graph,   *)
(* lines 49-80, as one value                                               *)

PlainInstance(dm, Amap) ==
    [size |-> Rows(Amap[dm[1]]),
     objective |-> ObjectiveB,
     constraints |->
        Append([j \in 1..Len(NonConstant(dm)) |->
                   MonomialConstraint(Amap[NonConstant(dm)[j]], NonConstant(dm)[j])],
               ConstantConstraint(Amap[tuple_of_constant(dm)], tuple_of_constant(dm)))]

----------------------------------------------------------------------------
(* Properties *)

\* the instance is complete: it is what M.solve() is, or was, called on
Built == pc \in {"solve", "return", "returned"}

\* the monomials other than the zero monomial, in list order
NonZeroMonomials ==
    SelectSeq(distinct_monomials, LAMBDA m : \E j \in DOMAIN m : m[j] # 0)

\* C1: the plain builder hands the solver one equality constraint per
\* distinct monomial: <A[m], X> = C[m] for every m other than the zero
\* monomial, in list order, and <A[zero], X> + b = C[zero] for the zero
\* monomial, with C[m] = -1 when the degree of m is 1 and 0 otherwise; b
\* occurs in the zero-monomial constraint only, and the objective is to
\* maximize b.
C1_PlainConstraints ==
    (fn = "plain" /\ Built) =>
        /\ Len(constraints) + 1 = Len(distinct_monomials)
        /\ \A j \in 1..Len(constraints) :
              LET m == NonZeroMonomials[j]
              IN  constraints[j] =
                     [mat |-> A_L2[m], b |-> 0, lb |-> {}, ub |-> {},
                      rhs |-> IF Degree(m) = 1 THEN 0 - 1 ELSE 0]
        /\ c0 = [mat |-> A_L2[ZeroMonomial], b |-> 1, lb |-> {}, ub |-> {}, rhs |-> 0]
        /\ objective = [sense |-> "Maximize", b |-> EpsInv, lb |-> << >>, ub |-> << >>]

\* a plain instance of three monomials, the zero monomial not first, with a
\* monomial of degree 1 and one of degree 2
C1_Witness ==
    /\ fn = "plain" /\ pc = "solve"
    /\ Len(constraints) = 2
    /\ distinct_monomials[1] # ZeroMonomial
    /\ \E j, k \in 1..2 : constraints[j].rhs = 0 - 1 /\ constraints[k].rhs = 0

\* C2: in the projected builder with slack, the constraint of the j-th
\* non-constant monomial m is <A'[m], X'> + lb_j - ub_j = C[m] with A'[m] the
\* projection of A[m], no two constraints share a slack pair, every slack
\* index is an index of the slack vectors, and the constant-monomial
\* constraint <A'[zero], X'> + b = C[zero] holds no slack; without slack no
\* constraint holds a slack.
C2_SlackConstraints ==
    (fn = "projected" /\ Built) =>
        /\ Len(constraints) + 1 = Len(distinct_monomials)
        /\ \A j \in 1..Len(constraints) :
              LET m == NonZeroMonomials[j]
              IN  /\ constraints[j].mat = apply_rp_map(projector, A_L2[m])
                  /\ constraints[j].rhs = CCoef(m)
                  /\ constraints[j].b = 0
                  /\ constraints[j].lb = (IF slack THEN {j} ELSE {})
                  /\ constraints[j].ub = (IF slack THEN {j} ELSE {})
                  /\ slack => j \in 0..(Len(distinct_monomials) - 1)
        /\ \A j, k \in 1..Len(constraints) :
              (slack /\ j # k) =>
                  /\ constraints[j].lb \cap constraints[k].lb = {}
                  /\ constraints[j].ub \cap constraints[k].ub = {}
        /\ c0 = [mat |-> apply_rp_map(projector, A_L2[ZeroMonomial]), b |-> 1,
                 lb |-> {}, ub |-> {}, rhs |-> CCoef(ZeroMonomial)]

\* a projected instance with slack and two non-constant monomials
C2_Witness ==
    /\ fn = "projected" /\ slack /\ pc = "solve"
    /\ Len(constraints) = 2
    /\ projector.family = "dense"

\* the objective has been set by the projected builder
ProjectedObjectiveSet == fn = "projected" /\ objective # NoObjective

\* C3 as stated: with slack the objective coefficient of b is 1, that of
\* each lb_i is -(0 - eps), that of each ub_i is -(1 + eps), and the pair at
\* index 0 has weight 0; without slack the objective is b alone.
\* (coefficients in units of eps)
C3_AsStated ==
    ProjectedObjectiveSet =>
        IF slack
        THEN /\ objective.sense = "Maximize"
             /\ objective.b = EpsInv
             /\ \A j \in 2..Len(distinct_monomials) :
                   /\ objective.lb[j] = 0 - (0 - 1)
                   /\ objective.ub[j] = 0 - (EpsInv + 1)
             /\ objective.lb[1] = 0 /\ objective.ub[1] = 0
        ELSE objective = [sense |-> "Maximize", b |-> EpsInv, lb |-> << >>, ub |-> << >>]

\* C3, amended: with slack the objective coefficient of b is 1, that of
\* each lb_i is (0 - eps), that of each ub_i is -(1 + eps), and the pair at
\* index 0 has weight 0; without slack the objective is b alone.
C3_Objective ==
    ProjectedObjectiveSet =>
        IF slack
        THEN /\ objective.sense = "Maximize"
             /\ objective.b = EpsInv
             /\ Len(objective.lb) = Len(distinct_monomials)
             /\ Len(objective.ub) = Len(distinct_monomials)
             /\ \A j \in 2..Len(distinct_monomials) :
                   /\ objective.lb[j] = 0 - 1
                   /\ objective.ub[j] = 0 - (EpsInv + 1)
             /\ objective.lb[1] = 0 /\ objective.ub[1] = 0
        ELSE objective = [sense |-> "Maximize", b |-> EpsInv, lb |-> << >>, ub |-> << >>]

\* a projected instance with slack whose list starts with the zero monomial
\* and has two non-constant monomials
C3_Witness ==
    /\ fn = "projected" /\ slack /\ pc = "solve"
    /\ Len(distinct_monomials) = 3
    /\ distinct_monomials[1] = ZeroMonomial

\* C4: with an identity projector of output dimension k = s and no slack the
\* projected builder builds the instance the plain builder builds from the
\* same graph (same PSD size, same constraints, same objective), the plain
\* builder's instance being PlainInstance, and so returns the same
\* objective value.
C4_IdentityProjection ==
    /\ (fn = "plain" /\ Built) => Instance = PlainInstance(distinct_monomials, A_L2)
    /\ (/\ fn = "projected" /\ Built
        /\ projector.family = "identity" /\ projector.k = projector.s
        /\ ~slack) =>
           /\ Instance = PlainInstance(distinct_monomials, A_L2)
           /\ pc = "returned" =>
                 result.objective =
                    PrimalObjValue(PlainInstance(distinct_monomials, A_L2))

\* an identity-projected call without slack that returned, on three monomials
C4_Witness ==
    /\ fn = "projected" /\ projector.family = "identity" /\ ~slack
    /\ pc = "returned"
    /\ Len(constraints) = 2

\* some coefficient matrix has another shape than A[zero]
MismatchedShapes ==
    \E m \in DOMAIN A_L2 : Shape(A_L2[m]) # Shape(A_L2[ZeroMonomial])

\* C5 as stated: when some A[m] has another shape than A[zero], the plain
\* builder makes no solve call and ends with a dimension error (the solver
\* library's own operand check is counted as one).
C5_AsStated ==
    (fn = "plain" /\ MismatchedShapes) =>
        /\ solveCalls = 0
        /\ pc \in {"returned", "raised"} => (pc = "raised" /\ error = "DimensionError")

\* C8 as stated: the record returned by the projected builder has
\* no_linear_variables = 2 * (number of constraints) + 1 with slack and 1
\* without (the number of constraints read as the length of the list
\* constraints, or that plus the constant-monomial constraint).
C8_AsStated ==
    (fn = "projected" /\ pc = "returned") =>
        \/ result.no_linear_variables =
              IntV(IF slack THEN 2 * Len(constraints) + 1 ELSE 1)
        \/ result.no_linear_variables =
              IntV(IF slack THEN 2 * (Len(constraints) + 1) + 1 ELSE 1)

\* C10: the session does not exist before the call enters the model, is
\* live only inside the call, and is not live once the call has returned or
\* raised; solve is called at most once; an error always leaves the call,
\* with no result record, and a returned call has no error.
C10_SessionScope ==
    /\ pc \in {"start", "open"} => session = "none"
    /\ pc \in {"loop", "solve", "return"} => session = "live"
    /\ pc \in {"returned", "raised"} => session \in {"none", "released"}
    /\ pc = "returned" => (session = "released" /\ error = "none" /\ solveCalls = 1
                           /\ result # NoResult)
    /\ solveCalls <= 1
    /\ error # "none" => (pc = "raised" /\ result = NoResult)
    /\ (pc = "raised" /\ error # "ValueError") => session = "released"

\* a call whose solve failed
C10_Witness ==
    /\ pc = "raised" /\ error = "SolverFailure"
    /\ session = "released" /\ solveCalls = 1

\* the arguments are in range: epsilon and probability in (0, 1)
ValidParameters == 0 < epsilon /\ epsilon < Den /\ 0 < probability /\ probability < Den

\* C6 as stated: projected_dimension returns d to its caller and writes
\* nothing.
C6_AsStated ==
    (dpc = "returned" /\ ValidParameters) =>
        /\ ret = DValue(epsilon, probability, ranks_Ai, rank_solution)
        /\ printed = << >>

\* C7 as stated: with probability <= 0, probability >= 1 or epsilon <= 0 the
\* call fails with an error and yields no dimension value (any error is
\* counted as the failure).
C7_AsStated ==
    (dpc # "start" /\ (probability <= 0 \/ probability >= Den \/ epsilon <= 0)) =>
        /\ dpc = "raised"
        /\ printed = << >>

\* the sum of ranks is positive and the probability is in range
C9_Case ==
    /\ dpc = "returned"
    /\ 0 < probability /\ probability < Den
    /\ sum_ranks(ranks_Ai, rank_solution) > 0

\* C9 as stated: a larger probability gives a larger d.
C9_AsStated ==
    C9_Case =>
        \A p2 \in (probability + 1)..(Den - 1) :
            d.v < DValue(epsilon, p2, ranks_Ai, rank_solution).v

\* C9, amended: with a positive sum of ranks a larger probability gives a
\* smaller d: for valid p1 < p2, d(p1) > d(p2).
C9_Decreasing ==
    C9_Case =>
        /\ d.kind = "num"
        /\ \A p2 \in (probability + 1)..(Den - 1) :
              /\ DValue(epsilon, p2, ranks_Ai, rank_solution).kind = "num"
              /\ d.v > DValue(epsilon, p2, ranks_Ai, rank_solution).v

\* a call with a valid probability below another valid one
C9_Witness ==
    /\ C9_Case
    /\ probability + 1 < Den
    /\ Len(ranks_Ai) > 0

====
